---- MODULE Spec2Model ----
(***************************************************************************)
(* Model of streamlit_app.py: the chat page of the skincare RAG chatbot.   *)
(*                                                                         *)
(* The page is a script that the interface framework re-executes from the  *)
(* top on every interaction (a "render pass").  The persistent state is    *)
(* st.session_state (the keys "messages" and "exited"); everything else is *)
(* local to one pass.  A pass is modelled step by step (pc) because the    *)
(* properties of interest speak about states inside a pass: between the    *)
(* append of the user turn and the append of the assistant turn, between   *)
(* two fragments of the completion stream, and so on.                      *)
(*                                                                         *)
(* Strings are sequences of symbols; concatenation is \o; the empty        *)
(* string is <<>> (falsy in Python).                                       *)
(***************************************************************************)
EXTENDS Integers, Sequences, FiniteSets, TLC

VARIABLES
    exited,         \* st.session_state["exited"] (absent key = FALSE)
    hasMessages,    \* "messages" in st.session_state
    messages,       \* st.session_state.messages
    pc,             \* position of the script in the current render pass
    event,          \* the widget interaction that triggered this pass
    i,              \* loop variable of the conversation loop
    n,              \* last index of range(len(messages)//2 + 1), fixed at loop entry
    out,            \* elements emitted to the page by the current pass, in order
    embedding,      \* result of embed_text
    docs,           \* result of retrieve_documents
    arrived,        \* chunks received from the completion stream so far
    yielded,        \* fragments generate_answer has yielded so far
    response,       \* generate_answer's local accumulator (line 106)
    response_text,  \* the caller's accumulator (line 168)
    fault,          \* which external call of this pass raised, if any
    embedCalls,     \* calls to the embedding service in this pass
    searchCalls,    \* calls to the vector index in this pass
    completionCalls,\* calls to the completion service in this pass
    fmtDocs,        \* argument of format_context (formatter specification)
    fmtOut,         \* results of the calls of format_context on fmtDocs
    fmtPc           \* position of the formatter driver

ctlVars == <<exited, hasMessages, messages, pc, event, i, n, out, embedding, docs,
             arrived, yielded, response, response_text, fault,
             embedCalls, searchCalls, completionCalls>>
fmtVars == <<fmtDocs, fmtOut, fmtPc>>
vars == <<exited, hasMessages, messages, pc, event, i, n, out, embedding, docs,
          arrived, yielded, response, response_text, fault,
          embedCalls, searchCalls, completionCalls, fmtDocs, fmtOut, fmtPc>>

(***************************************************************************)
(* Bounds of the model.                                                    *)
(***************************************************************************)
MaxTurns == 2
MaxFragments == 2
MaxHits == 1
MaxFmtDocs == 2

(***************************************************************************)
(* Program constants.                                                      *)
(***************************************************************************)
limit_k == 8

NoInfoMsg == <<"Maaf, saya tidak menemukan informasi relevan.">>

FallbackMsg == <<"Maaf, saya tidak menemukan informasi relevan.">>

ClosingMsg == <<"## Terima Kasih Telah Menggunakan Chatbot RAG Produk Skincare">>

(***************************************************************************)
(* Inputs and outcomes of the external collaborators.                      *)
(***************************************************************************)
\* what the user can type into a text input; <<>> is the empty text
Texts == {<<>>, <<"q">>}

\* Python's None, and values that may be None
None == [isNone |-> TRUE]

Some(v) == [isNone |-> FALSE, val |-> v]

\* response.embeddings[0].values as the embedding service may return it
Vectors == {<<>>, <<1, 2>>}

\* payloads of the hits of the vector index
Payloads == {[product_name |-> <<"A">>]}

RECURSIVE SeqsUpTo(_, _)
SeqsUpTo(S, k) ==
    IF k = 0 THEN {<<>>}
    ELSE LET shorter == SeqsUpTo(S, k - 1)
         IN  shorter \cup {Append(s, x) : s \in {t \in shorter : Len(t) = k - 1}, x \in S}

Min(a, b) == IF a < b THEN a ELSE b

\* the hit lists the index may answer with: at most limit_k hits
SearchResults == SeqsUpTo(Payloads, Min(limit_k, MaxHits))

\* chunk.choices[0].delta.content of one chunk of the stream
DeltaContents == {None, Some(<<>>), Some(<<"a">>), Some(<<"b">>)}

\* Python truthiness of a list or string that may be None
Truthy(x) == ~x.isNone /\ x.val # <<>>


\* chunk.choices[0].delta.content or ""
OrEmpty(c) == IF Truthy(c) THEN c.val ELSE <<>>

(***************************************************************************)
(* Page elements and widget events.                                        *)
(***************************************************************************)
El(kind, idx, marked, text) == [kind |-> kind, idx |-> idx, marked |-> marked, text |-> text]

NoEvent == [type |-> "none", form |-> 0, text |-> <<>>]

Kinds(k) == {j \in 1..Len(out) : out[j].kind = k}

FormsShown == {out[j].idx : j \in Kinds("form")}

ExitShown == Kinds("exit_button") # {}

Turn(role, content) == [role |-> role, content |-> content]

(***************************************************************************)
(* Start of a render pass: the script starts again from line 1 with fresh  *)
(* locals; st.session_state is what the previous pass left.                *)
(***************************************************************************)
BeginPass(ev) ==
    /\ pc' = "exit_check"
    /\ event' = ev
    /\ i' = 0
    /\ n' = 0
    /\ out' = <<>>
    /\ embedding' = None
    /\ docs' = <<>>
    /\ arrived' = <<>>
    /\ yielded' = <<>>
    /\ response' = <<>>
    /\ response_text' = <<>>
    /\ fault' = "none"
    /\ embedCalls' = 0
    /\ searchCalls' = 0
    /\ completionCalls' = 0

Init ==
    /\ exited = FALSE
    /\ hasMessages = FALSE
    /\ messages = <<>>
    /\ pc = "exit_check"
    /\ event = NoEvent
    /\ i = 0
    /\ n = 0
    /\ out = <<>>
    /\ embedding = None
    /\ docs = <<>>
    /\ arrived = <<>>
    /\ yielded = <<>>
    /\ response = <<>>
    /\ response_text = <<>>
    /\ fault = "none"
    /\ embedCalls = 0
    /\ searchCalls = 0
    /\ completionCalls = 0
    /\ fmtDocs = <<>>
    /\ fmtOut = <<>>
    /\ fmtPc = "idle"

passLocals == <<i, n, embedding, docs, arrived, yielded, response, response_text,
                fault, embedCalls, searchCalls, completionCalls>>
pipeVars == <<embedding, docs, arrived, yielded, response, response_text,
              fault, embedCalls, searchCalls, completionCalls>>
session == <<exited, hasMessages, messages>>

(***************************************************************************)
(* The user acts on a widget that the last finished pass left on the page. *)
(***************************************************************************)
\* "Kirim" of form f with text t in its text input
UserSubmit ==
    /\ pc = "done"
    /\ \E f \in FormsShown, t \in Texts :
          /\ t = <<>> \/ Len(messages) < 2 * MaxTurns
          /\ BeginPass([type |-> "submit", form |-> f, text |-> t])
    /\ UNCHANGED <<session, fmtVars>>

\* click on the Exit button
UserExit ==
    /\ pc = "done"
    /\ ExitShown
    /\ BeginPass([type |-> "exit", form |-> 0, text |-> <<>>])
    /\ UNCHANGED <<session, fmtVars>>

\* the framework re-executes the script without a form or button event
Rerender ==
    /\ pc = "done"
    /\ BeginPass(NoEvent)
    /\ UNCHANGED <<session, fmtVars>>

(***************************************************************************)
(* The script, top to bottom.                                              *)
(***************************************************************************)
\* the test of line 115, with the defect that it also wants a history to exist
ExitedConditionNeedsHistory == exited /\ hasMessages

\* "exited" in st.session_state and st.session_state["exited"]
ExitedCondition == exited

\* if <exited>: st.markdown(closing message); st.stop()
ExitStateHandler ==
    /\ pc = "exit_check"
    /\ IF ExitedCondition
          THEN /\ out' = Append(out, El("closing", 0, FALSE, ClosingMsg))
               /\ pc' = "done"
          ELSE /\ out' = out
               /\ pc' = "init_state"
    /\ UNCHANGED <<session, event, passLocals, fmtVars>>

\* if "messages" not in st.session_state: st.session_state.messages = []
\* and entry into the conversation loop: range(len(messages) // 2 + 1)
InitSessionState ==
    /\ pc = "init_state"
    /\ hasMessages' = TRUE
    /\ messages' = IF hasMessages THEN messages ELSE <<>>
    /\ i' = 0
    /\ n' = Len(messages') \div 2
    /\ pc' = "loop"
    /\ UNCHANGED <<exited, event, out, pipeVars, fmtVars>>

\* submitted, of the form with index k
Submitted(k) == event.type = "submit" /\ event.form = k

\* user_input, of the form with index k (clear_on_submit: only a submitted form
\* delivers its text)
UserInput(k) == IF Submitted(k) THEN event.text ELSE <<>>

\* is_last_input, with the defect that every form counts as the last one
IsLastInputAlways(k) == k <= Len(messages) \div 2

\* is_last_input
IsLastInput(k) == k = Len(messages) \div 2

\* the form of iteration i, the autofocus script, and the test of line 159
LoopForm ==
    /\ pc = "loop"
    /\ out' = out \o <<El("form", i, FALSE, <<>>)>>
                  \o (IF IsLastInput(i) THEN <<El("autofocus", i, FALSE, <<>>)>> ELSE <<>>)
    /\ pc' = IF Submitted(i) /\ UserInput(i) # <<>> THEN "append_user" ELSE "history"
    /\ UNCHANGED <<session, event, passLocals, fmtVars>>

\* st.session_state.messages.append({"role": "user", "content": user_input})
AppendUser ==
    /\ pc = "append_user"
    /\ messages' = Append(messages, Turn("user", UserInput(i)))
    /\ pc' = "embed"
    /\ UNCHANGED <<exited, hasMessages, event, out, passLocals, fmtVars>>


(***************************************************************************)
(* retrieve_documents(user_input): embed_text, then the vector search.     *)
(***************************************************************************)
\* embed_text: one call of the embedding service; an exception is reported with
\* st.error and turned into None
EmbedText ==
    /\ pc = "embed"
    /\ embedCalls' = embedCalls + 1
    /\ \/ /\ embedding' = None
          /\ fault' = "embed"
       \/ /\ embedding' \in {None} \cup {Some(v) : v \in Vectors}
          /\ fault' = fault
    /\ pc' = "retrieve"
    /\ UNCHANGED <<session, event, i, n, out, docs, arrived, yielded, response,
                   response_text, searchCalls, completionCalls, fmtVars>>

\* "not embedding" of line 59, with the defect that only None is recognised
NotEmbeddingOnlyNone == embedding.isNone

\* not embedding
NotEmbedding == ~Truthy(embedding)

\* the rest of retrieve_documents, and response_text = "" of line 168
RetrieveDocuments ==
    /\ pc = "retrieve"
    /\ IF NotEmbedding
          THEN /\ docs' = <<>>
               /\ UNCHANGED <<searchCalls, fault>>
          ELSE /\ searchCalls' = searchCalls + 1
               /\ \/ /\ docs' = <<>>
                     /\ fault' = "search"
                  \/ /\ docs' \in SearchResults
                     /\ fault' = fault
    /\ response_text' = <<>>
    /\ pc' = "generate"
    /\ UNCHANGED <<session, event, i, n, out, embedding, arrived, yielded, response,
                   embedCalls, completionCalls, fmtVars>>

(***************************************************************************)
(* generate_answer(user_input, docs), consumed by the loop of line 169.    *)
(***************************************************************************)
\* the caller's "response_text += chunk", with the defect that the chunk is put in front
AccumulatePrepend(acc, chunk) == chunk \o acc

\* response_text += chunk
Accumulate(acc, chunk) == acc \o chunk

\* up to the first yield: either the fixed fragment for "not docs", or the
\* completion request is sent and the stream is open, or the request raises
GenerateStart ==
    /\ pc = "generate"
    /\ IF docs = <<>>
          THEN /\ yielded' = Append(yielded, NoInfoMsg)
               /\ response_text' = Accumulate(response_text, NoInfoMsg)
               /\ pc' = "emit"
               /\ UNCHANGED <<completionCalls, fault>>
          ELSE /\ completionCalls' = completionCalls + 1
               /\ \/ /\ pc' = "stream"
                     /\ fault' = fault
                  \/ /\ pc' = "except"
                     /\ fault' = "open"
               /\ UNCHANGED <<yielded, response_text>>
    /\ UNCHANGED <<session, event, i, n, out, embedding, docs, arrived, response,
                   embedCalls, searchCalls, fmtVars>>

\* one chunk arrives: content = delta.content or ""; response += content; yield content
StreamChunk ==
    /\ pc = "stream"
    /\ Len(arrived) < MaxFragments
    /\ \E c \in DeltaContents :
          /\ arrived' = Append(arrived, c)
          /\ response' = response \o OrEmpty(c)
          /\ yielded' = Append(yielded, OrEmpty(c))
          /\ response_text' = Accumulate(response_text, OrEmpty(c))
    /\ UNCHANGED <<session, pc, event, i, n, out, embedding, docs, fault,
                   embedCalls, searchCalls, completionCalls, fmtVars>>

\* the stream ends: the generator returns and the for loop is left
StreamEnd ==
    /\ pc = "stream"
    /\ pc' = "emit"
    /\ UNCHANGED <<session, event, out, passLocals, fmtVars>>

\* reading the next chunk raises
StreamRaise ==
    /\ pc = "stream"
    /\ fault' = "stream"
    /\ pc' = "except"
    /\ UNCHANGED <<session, event, i, n, out, embedding, docs, arrived, yielded,
                   response, response_text, embedCalls, searchCalls, completionCalls,
                   fmtVars>>

\* the handler of line 171, with the defect that it keeps what was accumulated
ExceptTextKeepPartial == response_text \o FallbackMsg

\* except: response_text = "Maaf, ..."
ExceptText == FallbackMsg

Except ==
    /\ pc = "except"
    /\ response_text' = ExceptText
    /\ pc' = "emit"
    /\ UNCHANGED <<session, event, i, n, out, embedding, docs, arrived, yielded,
                   response, fault, embedCalls, searchCalls, completionCalls, fmtVars>>

\* st.markdown(f'<div id="last-message">{response_text}</div>')
EmitFresh ==
    /\ pc = "emit"
    /\ out' = Append(out, El("assistant", Len(messages), TRUE, response_text))
    /\ pc' = "append_assistant"
    /\ UNCHANGED <<session, event, passLocals, fmtVars>>

\* line 176 with the defect that the reply is stored as a second user turn
AssistantTurnWrongRole == Turn("user", response_text)

\* {"role": "assistant", "content": response_text}
AssistantTurn == Turn("assistant", response_text)

\* line 176 with the defect that the reply overwrites the last stored turn
StoreReplace(hist, turn) == [hist EXCEPT ![Len(hist)] = turn]

\* line 176 with the defect that the reply is inserted at the front
StoreFront(hist, turn) == <<turn>> \o hist

\* st.session_state.messages.append(turn)
Store(hist, turn) == Append(hist, turn)

\* st.session_state.messages.append({...}); st.rerun()
AppendAssistant ==
    /\ pc = "append_assistant"
    /\ messages' = Store(messages, AssistantTurn)
    /\ BeginPass(NoEvent)
    /\ UNCHANGED <<exited, hasMessages, fmtVars>>

(***************************************************************************)
(* The history of iteration i, the Exit button and the footer.             *)
(***************************************************************************)
\* the test of line 187: is the pair of iteration k the last one
IsLastPair(k) == k = Len(messages) \div 2 - 1

\* lines 180-190, then the next iteration or the end of the loop
ShowHistory ==
    /\ pc = "history"
    /\ LET idx == i * 2
           u == IF idx < Len(messages)
                   THEN <<El("user", idx, FALSE, messages[idx + 1].content)>>
                   ELSE <<>>
           a == IF idx + 1 < Len(messages)
                   THEN <<El("assistant", idx + 1, IsLastPair(i), messages[idx + 2].content)>>
                   ELSE <<>>
       IN  out' = out \o u \o a
    /\ i' = i + 1
    /\ pc' = IF i + 1 <= n THEN "loop" ELSE "exit_button"
    /\ UNCHANGED <<session, event, n, pipeVars, fmtVars>>

\* if st.button("Exit"): clear(); exited = True; rerun()   else the footer
ExitButton ==
    /\ pc = "exit_button"
    /\ IF event.type = "exit"
          THEN /\ hasMessages' = FALSE
               /\ messages' = <<>>
               /\ exited' = TRUE
               /\ BeginPass(NoEvent)
          ELSE /\ out' = out \o <<El("exit_button", 0, FALSE, <<>>),
                                  El("autoscroll", 0, FALSE, <<>>)>>
               /\ pc' = "done"
               /\ UNCHANGED <<session, event, passLocals>>
    /\ UNCHANGED fmtVars

Next ==
    \/ UserSubmit
    \/ UserExit
    \/ Rerender
    \/ ExitStateHandler
    \/ InitSessionState
    \/ LoopForm
    \/ AppendUser
    \/ EmbedText
    \/ RetrieveDocuments
    \/ GenerateStart
    \/ StreamChunk
    \/ StreamEnd
    \/ StreamRaise
    \/ Except
    \/ EmitFresh
    \/ AppendAssistant
    \/ ShowHistory
    \/ ExitButton

Spec == Init /\ [][Next]_vars


(***************************************************************************)
(* format_context(docs).  Here strings are sequences of characters.        *)
(***************************************************************************)
FieldKeys == {"product_name", "description", "product_image_link"}

\* the values a payload field may hold: the empty string and a one-letter string
FieldVals == {<<>>, <<"x">>}

\* payloads: any subset of the three keys may be present
FmtRecords == UNION {[D -> FieldVals] : D \in SUBSET FieldKeys}

TanpaNama == <<"T", "a", "n", "p", "a", " ", "N", "a", "m", "a">>

NoImage == <<"-">>

Newline == <<"\n">>

\* doc.get(key, default)
Get(doc, key, default) == IF key \in DOMAIN doc THEN doc[key] ELSE default

\* the f-string of line 82, with the defect that the name has no fallback text
format_lineNoNameFallback(doc) ==
    <<"-", " ">> \o Get(doc, "product_name", <<>>)
        \o <<",", " ">> \o Get(doc, "description", <<>>)
        \o <<" ", "(", "G", "a", "m", "b", "a", "r", ":", " ">>
        \o Get(doc, "product_image_link", NoImage) \o <<")">>

\* f"- {doc.get('product_name', 'Tanpa Nama')}, {doc.get('description', '')} (Gambar: {doc.get('product_image_link', '-')})"
format_line(doc) ==
    <<"-", " ">> \o Get(doc, "product_name", TanpaNama)
        \o <<",", " ">> \o Get(doc, "description", <<>>)
        \o <<" ", "(", "G", "a", "m", "b", "a", "r", ":", " ">>
        \o Get(doc, "product_image_link", NoImage) \o <<")">>

\* sep.join(parts)
RECURSIVE Join(_, _)
Join(sep, parts) ==
    IF parts = <<>> THEN <<>>
    ELSE IF Len(parts) = 1 THEN parts[1]
    ELSE parts[1] \o sep \o Join(sep, Tail(parts))

format_context(ds) == Join(Newline, [k \in 1..Len(ds) |-> format_line(ds[k])])

InitFmt ==
    /\ exited = FALSE
    /\ hasMessages = FALSE
    /\ messages = <<>>
    /\ pc = "exit_check"
    /\ event = NoEvent
    /\ i = 0
    /\ n = 0
    /\ out = <<>>
    /\ embedding = None
    /\ docs = <<>>
    /\ arrived = <<>>
    /\ yielded = <<>>
    /\ response = <<>>
    /\ response_text = <<>>
    /\ fault = "none"
    /\ embedCalls = 0
    /\ searchCalls = 0
    /\ completionCalls = 0
    /\ fmtDocs \in SeqsUpTo(FmtRecords, MaxFmtDocs)
    /\ fmtOut = <<>>
    /\ fmtPc = "idle"

\* a call format_context(fmtDocs); the list is called on twice
CallFormatContext ==
    /\ fmtPc \in {"idle", "called"}
    /\ fmtOut' = Append(fmtOut, format_context(fmtDocs))
    /\ fmtPc' = IF fmtPc = "idle" THEN "called" ELSE "called_twice"
    /\ UNCHANGED <<ctlVars, fmtDocs>>

NextFmt == CallFormatContext

SpecFmt == InitFmt /\ [][NextFmt]_vars


(***************************************************************************)
(* Properties.                                                             *)
(***************************************************************************)
\* the positions between the append of the user turn and the append of the reply
PipelinePcs == {"embed", "retrieve", "generate", "stream", "except", "emit",
                "append_assistant"}

\* the positions after retrieve_documents has returned
AfterRetrievePcs == {"generate", "stream", "except", "emit", "append_assistant"}

IsPrefix(s, t) == Len(s) <= Len(t) /\ SubSeq(t, 1, Len(s)) = s

RECURSIVE Concat(_)
Concat(parts) == IF parts = <<>> THEN <<>> ELSE Head(parts) \o Concat(Tail(parts))

MarkedAssistants == {j \in Kinds("assistant") : out[j].marked}

\* C1, the part about single states
C1_DuringPipeline ==
    pc \in PipelinePcs =>
        /\ event.type = "submit" /\ event.text # <<>>
        /\ Len(messages) = 2 * n + 1
        /\ messages[Len(messages)] = Turn("user", event.text)
        /\ pc = "embed" => embedCalls = 0 /\ searchCalls = 0 /\ completionCalls = 0

\* C1, the part about single steps
C1_Steps ==
    /\ pc = "append_user" =>
          /\ event.text # <<>>
          /\ messages' = Append(messages, Turn("user", event.text))
          /\ pc' = "embed"
    /\ pc = "append_assistant" =>
          /\ Len(messages') = 2 * n + 2
          /\ SubSeq(messages', 1, Len(messages)) = messages
          /\ messages'[Len(messages')].role = "assistant"
    /\ (messages' # messages /\ ~exited') => pc \in {"append_user", "append_assistant"}

\* C1: every submission of non-empty text appends exactly one user turn with that
\* text and then exactly one assistant turn.  The user turn is in the history, as its
\* last element, before any external service of the pipeline is called and during the
\* whole pipeline, whatever the pipeline's outcome (answer, no records, exception);
\* the step that stores the reply leaves the history as the old history followed by
\* that user turn and one assistant turn, and no other step of a non-exited session
\* changes the history.
C1_UserThenAssistant == [](C1_DuringPipeline) /\ [][C1_Steps]_vars

\* C1 witness: the reply of a pass whose stream raised is about to be stored
C1_Witness == pc = "append_assistant" /\ fault = "stream" /\ Len(messages) = 3

\* C2: in a non-exited session the history alternates user, assistant, user, ...
\* starting with a user turn; its length is odd only between the append of a user turn
\* and the append of its reply, and even at the start of every render pass.
C2_Alternation ==
    ~exited =>
        /\ \A k \in 1..Len(messages) :
              messages[k].role = IF k % 2 = 1 THEN "user" ELSE "assistant"
        /\ Len(messages) % 2 = 1 => pc \in PipelinePcs
        /\ pc = "exit_check" => Len(messages) % 2 = 0

\* C2 witness: the second question is unanswered while its stream is read
C2_Witness == pc = "stream" /\ Len(messages) = 3 /\ ~exited

\* C3, the part about single states
C3_ExitedState ==
    exited =>
        /\ ~hasMessages /\ messages = <<>>
        /\ pc \in {"exit_check", "done"}
        /\ \A j \in 1..Len(out) : out[j].kind = "closing"
        /\ pc = "done" => out = <<El("closing", 0, FALSE, ClosingMsg)>>

\* C3, the part about single steps
C3_Steps ==
    /\ (pc = "exit_button" /\ event.type = "exit") =>
          exited' /\ ~hasMessages' /\ messages' = <<>>
    /\ exited => exited' /\ ~hasMessages' /\ messages' = <<>>

\* C3: the Exit step clears the session state and sets the flag; from then on the flag
\* stays set, the history is never recreated, and a pass emits the closing message and
\* nothing else (no form, no turn, no Exit button).
C3_ExitAbsorbing == [](C3_ExitedState) /\ [][C3_Steps]_vars

\* C3 witness: a pass of an exited session has finished
C3_Witness == exited /\ pc = "done" /\ Len(out) = 1

\* C4, the part about single states
C4_State ==
    /\ (fault # "none" /\ pc \in {"emit", "append_assistant"}) => response_text = FallbackMsg
    /\ (pc = "done" /\ ~exited) => (Len(messages) \div 2) \in FormsShown

\* C4, the part about single steps
C4_Steps ==
    (fault # "none" /\ pc = "append_assistant") =>
        /\ messages' = Append(messages, Turn("assistant", FallbackMsg))
        /\ ~exited'
        /\ pc' = "exit_check"

\* C4: when an external call of the pipeline raised in this pass (embedding, search,
\* opening the stream, reading the stream), the reply shown and stored is exactly the
\* fixed message, with nothing of the fragments already received; the session is not
\* exited by it, the next pass starts, and a finished pass of a non-exited session
\* offers the form of the next turn.
C4_FallbackOnException == [](C4_State) /\ [][C4_Steps]_vars

\* C4 witness: the stream raised after a non-empty fragment had been received
C4_Witness ==
    /\ pc = "append_assistant" /\ fault = "stream"
    /\ Len(yielded) >= 1 /\ yielded[1] # <<>>

\* C5: when the embedding call raised or gave no vector (None or an empty list),
\* retrieve_documents returns [] and the vector index was not called; when the search
\* raised it returns [] as well; retrieve_documents itself never raises.
C5_RetrieveShortCircuit ==
    /\ pc \in {"embed", "retrieve"} => searchCalls = 0
    /\ fault = "embed" => embedding = None
    /\ pc \in AfterRetrievePcs =>
          /\ (embedding.isNone \/ embedding.val = <<>>) => docs = <<>> /\ searchCalls = 0
          /\ fault = "search" => docs = <<>> /\ searchCalls = 1
          /\ fault \in {"embed", "search"} => pc # "except"

\* C5 witness: the embedding service returned an empty vector and retrieval is over
C5_Witness == pc = "generate" /\ embedding = Some(<<>>) /\ embedCalls = 1


\* the content the caller reads from a chunk, spelled out: None counts as ""
ContentOf(c) == IF c.isNone THEN <<>> ELSE c.val

\* C6, the part about single states
C6_State ==
    /\ (pc \in {"emit", "append_assistant"} /\ docs = <<>>) =>
          /\ yielded = <<NoInfoMsg>>
          /\ response_text = NoInfoMsg
          /\ completionCalls = 0
          /\ arrived = <<>>
    /\ (pc \in {"stream", "except", "emit", "append_assistant"} /\ docs # <<>>) =>
          /\ completionCalls = 1
          /\ Len(yielded) = Len(arrived)
          /\ \A k \in 1..Len(arrived) : yielded[k] = ContentOf(arrived[k])
          /\ response = Concat(yielded)
          /\ (pc = "stream" \/ fault = "none") => response_text = Concat(yielded)

\* C6, the part about single steps
C6_Steps ==
    (pc = "append_assistant" /\ docs # <<>> /\ fault = "none") =>
        messages' = Append(messages, Turn("assistant", Concat(yielded)))

RECURSIVE SplitLines(_, _)
SplitLines(text, cur) ==
    IF text = <<>> THEN <<cur>>
    ELSE IF Head(text) = "\n" THEN <<cur>> \o SplitLines(Tail(text), <<>>)
    ELSE SplitLines(Tail(text), Append(cur, Head(text)))

LinesOf(text) == IF text = <<>> THEN <<>> ELSE SplitLines(text, <<>>)

\* the line the specification gives for one record
ExpectedLine(doc) ==
    LET name == IF "product_name" \in DOMAIN doc THEN doc.product_name ELSE TanpaNama
        desc == IF "description" \in DOMAIN doc THEN doc.description ELSE <<>>
        img  == IF "product_image_link" \in DOMAIN doc THEN doc.product_image_link ELSE <<"-">>
    IN  <<"-", " ">> \o name \o <<",", " ">> \o desc
            \o <<" ", "(", "G", "a", "m", "b", "a", "r", ":", " ">> \o img \o <<")">>

\* C7: the text format_context returns has exactly one line per record, in the order
\* of the records, line k being "- <name>, <description> (Gambar: <image>)" of record
\* k with 'Tanpa Nama', '' and '-' for an absent name, description and image; the
\* empty list gives the empty text; two calls on the same list give the same text.
\* (Field values are newline-free strings.)
C7_FormatContext ==
    \A c \in 1..Len(fmtOut) :
        /\ fmtDocs = <<>> => fmtOut[c] = <<>>
        /\ Len(LinesOf(fmtOut[c])) = Len(fmtDocs)
        /\ \A k \in 1..Len(fmtDocs) : LinesOf(fmtOut[c])[k] = ExpectedLine(fmtDocs[k])
        /\ fmtOut[c] = fmtOut[1]

\* C7 witness: two records, the first without a name, the second with all fields,
\* formatted twice
C7_Witness ==
    /\ Len(fmtOut) = 2 /\ Len(fmtDocs) = 2
    /\ "product_name" \notin DOMAIN fmtDocs[1]
    /\ DOMAIN fmtDocs[2] = FieldKeys

\* C8 as stated: a finished pass of a non-exited session shows exactly one input form,
\* the one of the next turn, and no form for a turn that has its answer.
C8_Original ==
    (pc = "done" /\ ~exited) => FormsShown = {Len(messages) \div 2}

\* C8 as amended: a pass of a non-exited session that runs to its end shows one input
\* form per turn index 0..n, n the number of answered turns: the forms of the answered
\* turns stay on the page, and exactly one form, the one of the next turn (index n), is
\* the last and auto-focused one.
C8_FormPerTurn ==
    (pc = "done" /\ ~exited) =>
        /\ FormsShown = 0..(Len(messages) \div 2)
        /\ Cardinality(Kinds("form")) = Len(messages) \div 2 + 1
        /\ \A j \in Kinds("autofocus") : out[j].idx = Len(messages) \div 2
        /\ Cardinality(Kinds("autofocus")) = 1

\* C8 witness: two answered turns and three forms on the page
C8_Witness == pc = "done" /\ ~exited /\ Len(messages) = 4 /\ Cardinality(Kinds("form")) = 3

\* C9: in every pass at most one assistant turn is emitted with the scroll marker,
\* and it is the assistant turn with the highest index emitted so far.
C9_SingleMarker ==
    /\ Cardinality(MarkedAssistants) <= 1
    /\ \A j \in MarkedAssistants : \A k \in Kinds("assistant") : out[k].idx <= out[j].idx

\* C10, the part about single states
C10_State ==
    (event.type = "submit" /\ event.text = <<>>) => pc \notin PipelinePcs \cup {"append_user"}

\* C10, the part about single steps
C10_Steps ==
    /\ ~exited' => IsPrefix(messages, messages')
    /\ ~IsPrefix(messages, messages') => pc = "exit_button" /\ event.type = "exit"
    /\ (messages' # messages /\ ~exited') =>
          pc \in {"append_user", "append_assistant"} /\ event.text # <<>>

\* C10: while the session is not exited the history only grows at its end: every step
\* leaves the old history a prefix of the new one; a pass triggered by a submission of
\* empty text never reaches a step that changes the history; a step that removes
\* turns is the Exit step.
C10_AppendOnly == [](C10_State) /\ [][C10_Steps]_vars

\* C10 witness: a reply to a submission made through the form of an answered turn
\* is about to be stored behind the existing pair
C10_Witness ==
    /\ pc = "append_assistant" /\ Len(messages) = 3
    /\ event.form = 0 /\ messages[2].content # response_text

====
